---- MODULE Spec2Model ----
(***************************************************************************)
(* Model of ingestion/src/metadata/ingestion/sink/elasticsearch.py:        *)
(* ElasticsearchSink, the sink that turns Table / Topic / Dashboard /      *)
(* Pipeline entities into search documents and writes them to              *)
(* Elasticsearch.                                                          *)
(*                                                                         *)
(* Conventions.                                                            *)
(*  - A Python Optional value is a sequence of length <= 1: None is <<>>,  *)
(*    a value x that is present is <<x>>.                                  *)
(*  - A Python str whose characters the code inspects or concatenates (a   *)
(*    tagFQN, a column name) is a sequence of one-character strings; other *)
(*    strs are TLA+ strings.                                               *)
(*  - A Python set is a TLA+ set (list(tags) has no defined order).        *)
(*  - time.time() (last_updated_timestamp) and the usageSummary fields,    *)
(*    which are copied through verbatim, are left out of the documents.    *)
(***************************************************************************)
EXTENDS Integers, Sequences, FiniteSets, TLC

VARIABLES
    phase,     \* "new" (no sink yet), "open" (constructed), "closed" (close() called)
    config,    \* self.config, an ElasticSearchConfig
    es,        \* the Elasticsearch cluster: index name -> [exists, mappings, docs]
    calls,     \* every call this sink issued on self.elasticsearch_client, in order
    status,    \* self.status.records, the SinkStatus list of written record names
    record,    \* the argument of the last write_record / builder call, Optional
    failing,   \* the metadata-store lookups that failed during that call
    result,    \* how that call ended: [ok, error, doc, lookups], Optional
    trace,     \* what that call did, in order: lookups, the index write, the status update
    nwrites,   \* write_record calls made on this sink so far
    nreturned  \* those of them that returned normally

vars == <<phase, config, es, calls, status, record, failing, result, trace, nwrites, nreturned>>

----------------------------------------------------------------------------
(* Bounds of the model.                                                    *)

\* write_record calls per sink
MaxWrites == 2
\* length of an entity's tag list
MaxTags == 2
\* depth of the column tree
MaxDepth == 3
\* chart references of a dashboard
MaxCharts == 2
\* tasks of a pipeline
MaxTasks == 2

----------------------------------------------------------------------------
(* Python values.                                                          *)

None == <<>>
Some(x) == <<x>>

SeqsUpTo(S, n) == UNION {[1..k -> S] : k \in 0..n}

\* Python's `sub in s` for two strs
Contains(sub, s) ==
    \E i \in 1..(Len(s) - Len(sub) + 1) : SubSeq(s, i, i + Len(sub) - 1) = sub

\* str(n) of a natural number: its decimal digits
Digit(d) == <<"0", "1", "2", "3", "4", "5", "6", "7", "8", "9">>[d + 1]

RECURSIVE Str(_)
Str(n) == IF n < 10 THEN <<Digit(n)>> ELSE Append(Str(n \div 10), Digit(n % 10))

\* json.dumps / BaseModel.json(): the JSON text of a value
JsonDumps(v) == [json |-> v]

\* json.loads: the value a JSON text holds
JsonLoads(s) == s.json

----------------------------------------------------------------------------
(* Configuration and the index mapping templates.                          *)

Kinds == {"Table", "Topic", "Dashboard", "Pipeline"}

IndexNames ==
    {"table_search_index", "topic_search_index",
     "dashboard_search_index", "pipeline_search_index"}

ElasticSearchConfigs ==
    [index_tables : BOOLEAN, index_topics : BOOLEAN,
     index_dashboards : BOOLEAN, index_pipelines : BOOLEAN,
     table_index_name : {"table_search_index"},
     topic_index_name : {"topic_search_index"},
     dashboard_index_name : {"dashboard_search_index"},
     pipeline_index_name : {"pipeline_search_index"}]

\* the index a kind's documents go to, and the flag that enables the kind
IndexOf(cfg, kind) ==
    CASE kind = "Table" -> cfg.table_index_name
      [] kind = "Topic" -> cfg.topic_index_name
      [] kind = "Dashboard" -> cfg.dashboard_index_name
      [] kind = "Pipeline" -> cfg.pipeline_index_name

KindEnabled(cfg, kind) ==
    CASE kind = "Table" -> cfg.index_tables
      [] kind = "Topic" -> cfg.index_topics
      [] kind = "Dashboard" -> cfg.index_dashboards
      [] kind = "Pipeline" -> cfg.index_pipelines

\* The templates are JSON texts with a settings block and a mappings block.
TABLE_ELASTICSEARCH_INDEX_MAPPING ==
    JsonDumps([settings |-> "table_settings",
               mappings |-> [properties |-> {"table_name", "column_names", "tags", "tier"}]])

TOPIC_ELASTICSEARCH_INDEX_MAPPING ==
    JsonDumps([settings |-> "topic_settings",
               mappings |-> [properties |-> {"topic_name", "tags", "tier"}]])

DASHBOARD_ELASTICSEARCH_INDEX_MAPPING ==
    JsonDumps([settings |-> "dashboard_settings",
               mappings |-> [properties |-> {"dashboard_name", "chart_names", "tags", "tier"}]])

PIPELINE_ELASTICSEARCH_INDEX_MAPPING ==
    JsonDumps([settings |-> "pipeline_settings",
               mappings |-> [properties |-> {"pipeline_name", "task_names", "tags", "tier"}]])

MappingOf(kind) ==
    CASE kind = "Table" -> TABLE_ELASTICSEARCH_INDEX_MAPPING
      [] kind = "Topic" -> TOPIC_ELASTICSEARCH_INDEX_MAPPING
      [] kind = "Dashboard" -> DASHBOARD_ELASTICSEARCH_INDEX_MAPPING
      [] kind = "Pipeline" -> PIPELINE_ELASTICSEARCH_INDEX_MAPPING

----------------------------------------------------------------------------
(* The Elasticsearch client.  A world w is [es, calls]: the cluster and    *)
(* the log of the calls the sink issued.                                   *)

DefaultSettings == "default_settings"

\* mappings ES derives by itself for an index that was given none
DynamicMappings == {"dynamic"}

AbsentIndex == [exists |-> FALSE, settings |-> DefaultSettings, mappings |-> {}, docs |-> {}]
EmptyIndex == [exists |-> TRUE, settings |-> DefaultSettings, mappings |-> {}, docs |-> {}]
MappedIndex == [EmptyIndex EXCEPT !.mappings = DynamicMappings]

Call(op, index, id, body) == [op |-> op, index |-> index, id |-> id, body |-> body]

Log(w, c) == [w EXCEPT !.calls = Append(@, c)]

\* indices.exists(index): the call; its answer is w.es[index].exists
IndicesExists(w, index) == Log(w, Call("indices.exists", Some(index), None, None))

\* indices.get_mapping(): the call; its answer holds w.es[index].mappings
IndicesGetMapping(w) == Log(w, Call("indices.get_mapping", None, None, None))

\* indices.put_mapping(index, body): body is the JSON text of {"properties": ...}
IndicesPutMapping(w, index, body) ==
    LET w1 == Log(w, Call("indices.put_mapping", Some(index), None, Some(body)))
    IN  [w1 EXCEPT !.es[index].mappings = JsonLoads(body).properties]

\* indices.create(index, body): body is the JSON text of a whole template
IndicesCreate(w, index, body) ==
    LET w1 == Log(w, Call("indices.create", Some(index), None, Some(body)))
    IN  [w1 EXCEPT !.es[index] =
            [exists |-> TRUE, settings |-> JsonLoads(body).settings,
             mappings |-> JsonLoads(body).mappings.properties, docs |-> {}]]

\* index(index, id, body): create-or-replace the document with that id; an
\* index that does not exist is created on the fly with dynamic mappings
EsIndex(w, index, id, body) ==
    LET w1 == Log(w, Call("index", Some(index), Some(id), Some(body)))
        old == w.es[index]
        kept == {d \in old.docs : d.id # id}
    IN  [w1 EXCEPT !.es[index] =
            [exists |-> TRUE, settings |-> old.settings,
             mappings |-> IF old.mappings = {} THEN DynamicMappings ELSE old.mappings,
             docs |-> kept \cup {[id |-> id, body |-> body]}]]

----------------------------------------------------------------------------
(* ElasticsearchSink._check_or_create_index and __init__.                  *)

\* _check_or_create_index without the test for empty mappings
check_or_create_index_always_put(w, index_name, es_mapping) ==
    LET w1 == IndicesExists(w, index_name)
    IN  IF w.es[index_name].exists
        THEN IndicesPutMapping(IndicesGetMapping(w1), index_name,
                 JsonDumps([properties |-> JsonLoads(es_mapping).mappings.properties]))
        ELSE IndicesCreate(w1, index_name, es_mapping)

check_or_create_index(w, index_name, es_mapping) ==
    LET w1 == IndicesExists(w, index_name)
    IN  IF w.es[index_name].exists
        THEN LET w2 == IndicesGetMapping(w1)
             IN  IF w.es[index_name].mappings = {}
                 THEN LET es_mapping_dict == JsonLoads(es_mapping)
                          es_mapping_update_dict ==
                              [properties |-> es_mapping_dict.mappings.properties]
                      IN  IndicesPutMapping(w2, index_name, JsonDumps(es_mapping_update_dict))
                 ELSE w2
        ELSE IndicesCreate(w1, index_name, es_mapping)

\* the four guarded bootstrap calls of __init__, in the order of the code
init_indices(w, cfg) ==
    LET w1 == IF cfg.index_tables
              THEN check_or_create_index(w, cfg.table_index_name,
                                         TABLE_ELASTICSEARCH_INDEX_MAPPING)
              ELSE w
        w2 == IF cfg.index_topics
              THEN check_or_create_index(w1, cfg.topic_index_name,
                                         TOPIC_ELASTICSEARCH_INDEX_MAPPING)
              ELSE w1
        w3 == IF cfg.index_dashboards
              THEN check_or_create_index(w2, cfg.dashboard_index_name,
                                         DASHBOARD_ELASTICSEARCH_INDEX_MAPPING)
              ELSE w2
        w4 == IF cfg.index_pipelines
              THEN check_or_create_index(w3, cfg.pipeline_index_name,
                                         PIPELINE_ELASTICSEARCH_INDEX_MAPPING)
              ELSE w3
    IN  w4

----------------------------------------------------------------------------
(* The metadata store (self.metadata).  get_by_id(entity, id) raises when  *)
(* the lookup fails; `fail` is the set of lookups that fail during the  *)
(* call at hand.                                                           *)

LookupKey(entity, id) == <<"get_by_id", entity, id>>

\* tag names: "Tier.Tier1", "My.Tier2" ("Tier" inside the name), "PII.Sensitive"
\* and "tier.low" (no "Tier": the test is case-sensitive)
Tier1 == <<"T", "i", "e", "r", ".", "T", "i", "e", "r", "1">>
Tier2 == <<"M", "y", ".", "T", "i", "e", "r", "2">>
PII == <<"P", "I", "I", ".", "S", "e", "n", "s", "i", "t", "i", "v", "e">>
LowerTier == <<"t", "i", "e", "r", ".", "l", "o", "w">>

TagFQNs == {Tier1, Tier2, PII, LowerTier}
TagLabels == [tagFQN : TagFQNs]

Store(entity, id) ==
    CASE entity = "Database" ->
            [name |-> "sales", service |-> [id |-> "mysql_svc"]]
      [] entity = "Chart" /\ id = "c1" ->
            [displayName |-> "Sales by day", description |-> Some("daily sales"),
             tags |-> <<[tagFQN |-> PII]>>]
      [] entity = "Chart" /\ id = "c2" ->
            [displayName |-> "Revenue", description |-> None,
             tags |-> <<[tagFQN |-> Tier1]>>]
      [] entity = "Chart" ->
            [displayName |-> "Plain", description |-> None, tags |-> <<>>]
      [] OTHER ->
            [name |-> id, serviceType |-> [name |-> entity]]

\* None when the lookup raises, the entity otherwise
get_by_id(fail, entity, id) ==
    IF LookupKey(entity, id) \in fail THEN None ELSE Some(Store(entity, id))

\* how a builder ends: with a document, or with an exception
Return(doc, lookups) == [ok |-> TRUE, error |-> "", doc |-> Some(doc), lookups |-> lookups]
Raise(error, lookups) == [ok |-> FALSE, error |-> error, doc |-> None, lookups |-> lookups]

----------------------------------------------------------------------------
(* The steps the four builders share.                                      *)

TIER == <<"T", "i", "e", "r">>

\* TierLoop with a guard that keeps the first tier tag found
RECURSIVE TierLoopKeepFirst(_, _, _)
TierLoopKeepFirst(tag_list, tier, tags) ==
    IF tag_list = <<>>
    THEN [tier |-> tier, tags |-> tags]
    ELSE LET tagFQN == Head(tag_list).tagFQN
         IN  IF Contains(TIER, tagFQN)
             THEN TierLoopKeepFirst(Tail(tag_list),
                                    IF tier = None THEN Some(tagFQN) ELSE tier, tags)
             ELSE TierLoopKeepFirst(Tail(tag_list), tier, tags \cup {tagFQN})

\* for x_tag in x.tags: if "Tier" in x_tag.tagFQN: tier = ... else: tags.add(...)
RECURSIVE TierLoop(_, _, _)
TierLoop(tag_list, tier, tags) ==
    IF tag_list = <<>>
    THEN [tier |-> tier, tags |-> tags]
    ELSE LET tagFQN == Head(tag_list).tagFQN
         IN  IF Contains(TIER, tagFQN)
             THEN TierLoop(Tail(tag_list), Some(tagFQN), tags)
             ELSE TierLoop(Tail(tag_list), tier, tags \cup {tagFQN})

\* str(x.owner.id.__root__) if x.owner is not None else ""
OwnerOf(entity) == IF entity.owner # None THEN Str(entity.owner[1].id) ELSE <<>>

\* the followers loop
FollowersOf(entity) ==
    IF entity.followers # None
    THEN [i \in 1..Len(entity.followers[1]) |-> Str(entity.followers[1][i].id)]
    ELSE <<>>

----------------------------------------------------------------------------
(* ElasticsearchSink._parse_columns: acc holds the three accumulators      *)
(* column_names, column_descriptions and tags.                             *)

RECURSIVE parse_columns(_, _, _)
parse_columns(columns, parent_column, acc) ==
    IF columns = <<>>
    THEN acc
    ELSE LET column == Head(columns)
             col_name == IF parent_column # None
                         THEN parent_column[1] \o <<".">> \o column.name
                         ELSE column.name
             acc1 == [column_names |-> Append(acc.column_names, col_name),
                      column_descriptions |->
                          IF column.description # None
                          THEN Append(acc.column_descriptions, column.description[1])
                          ELSE acc.column_descriptions,
                      tags |->
                          IF Len(column.tags) > 0
                          THEN acc.tags \cup {column.tags[i].tagFQN : i \in 1..Len(column.tags)}
                          ELSE acc.tags]
             acc2 == IF column.children # None
                     THEN parse_columns(column.children[1], Some(column.name), acc1)
                     ELSE acc1
         IN  parse_columns(Tail(columns), parent_column, acc2)

----------------------------------------------------------------------------
(* ElasticsearchSink._create_table_es_doc.                                 *)

create_table_es_doc(table, fail) ==
    IF table.tags = None
    THEN Raise("TypeError", <<>>)
    ELSE
    LET fqdn == table.fullyQualifiedName
        table_name == table.name
        suggest == <<[input |-> <<fqdn>>, weight |-> 5],
                     [input |-> <<table_name.root>>, weight |-> 10]>>
        split == TierLoop(table.tags[1], None, {})
        parsed == parse_columns(table.columns, None,
                      [column_names |-> <<>>, column_descriptions |-> <<>>,
                       tags |-> split.tags])
        database_key == LookupKey("Database", table.database.id)
        database_entity == get_by_id(fail, "Database", table.database.id)
    IN  IF database_entity = None
        THEN Raise("LookupError", <<database_key>>)
        ELSE
        LET service_id == database_entity[1].service.id
            service_key == LookupKey("DatabaseService", service_id)
            service_entity == get_by_id(fail, "DatabaseService", service_id)
        IN  IF service_entity = None
            THEN Raise("LookupError", <<database_key, service_key>>)
            ELSE Return(
                [table_id |-> Str(table.id),
                 database |-> database_entity[1].name,
                 service |-> service_entity[1].name,
                 service_type |-> service_entity[1].serviceType.name,
                 service_category |-> "databaseService",
                 table_name |-> table.name.root,
                 suggest |-> suggest,
                 description |-> table.description,
                 column_names |-> parsed.column_names,
                 column_descriptions |-> parsed.column_descriptions,
                 tier |-> split.tier,
                 tags |-> parsed.tags,
                 fqdn |-> fqdn,
                 schema_description |-> None,
                 owner |-> OwnerOf(table),
                 followers |-> FollowersOf(table)],
                <<database_key, service_key>>)

----------------------------------------------------------------------------
(* ElasticsearchSink._create_topic_es_doc.                                 *)

create_topic_es_doc(topic, fail) ==
    LET fqdn == topic.fullyQualifiedName
        topic_name == topic.name
        suggest == <<[input |-> <<fqdn>>, weight |-> 5],
                     [input |-> <<topic_name.root>>, weight |-> 10]>>
        service_key == LookupKey("MessagingService", topic.service.id)
        service_entity == get_by_id(fail, "MessagingService", topic.service.id)
    IN  IF service_entity = None
        THEN Raise("LookupError", <<service_key>>)
        ELSE IF topic.tags = None
        THEN Raise("TypeError", <<service_key>>)
        ELSE
        LET split == TierLoop(topic.tags[1], None, {})
        IN  Return(
                [topic_id |-> Str(topic.id),
                 service |-> service_entity[1].name,
                 service_type |-> service_entity[1].serviceType.name,
                 service_category |-> "messagingService",
                 topic_name |-> topic.name.root,
                 suggest |-> suggest,
                 description |-> topic.description,
                 tier |-> split.tier,
                 tags |-> split.tags,
                 fqdn |-> fqdn,
                 owner |-> OwnerOf(topic),
                 followers |-> FollowersOf(topic)],
                <<service_key>>)

----------------------------------------------------------------------------
(* ElasticsearchSink._get_charts and _create_dashboard_es_doc.             *)

\* _get_charts with the failed lookup caught and the chart skipped
RECURSIVE get_charts_loop_skip_failed(_, _, _)
get_charts_loop_skip_failed(chart_refs, fail, acc) ==
    IF chart_refs = <<>>
    THEN acc
    ELSE LET chart_ref == Head(chart_refs)
             chart == get_by_id(fail, "Chart", chart_ref.id)
             lookups == Append(acc.lookups, LookupKey("Chart", chart_ref.id))
         IN  get_charts_loop_skip_failed(Tail(chart_refs), fail,
                 [ok |-> TRUE,
                  charts |-> IF chart = None THEN acc.charts ELSE Append(acc.charts, chart[1]),
                  lookups |-> lookups])

\* the charts fetched so far and the lookups made; ok is FALSE once one raised
RECURSIVE get_charts_loop(_, _, _)
get_charts_loop(chart_refs, fail, acc) ==
    IF chart_refs = <<>>
    THEN acc
    ELSE LET chart_ref == Head(chart_refs)
             chart == get_by_id(fail, "Chart", chart_ref.id)
             lookups == Append(acc.lookups, LookupKey("Chart", chart_ref.id))
         IN  IF chart = None
             THEN [ok |-> FALSE, charts |-> acc.charts, lookups |-> lookups]
             ELSE get_charts_loop(Tail(chart_refs), fail,
                      [ok |-> TRUE, charts |-> Append(acc.charts, chart[1]),
                       lookups |-> lookups])

get_charts(chart_refs, fail) ==
    IF chart_refs # None /\ chart_refs[1] # <<>>
    THEN get_charts_loop(chart_refs[1], fail,
                         [ok |-> TRUE, charts |-> <<>>, lookups |-> <<>>])
    ELSE [ok |-> TRUE, charts |-> <<>>, lookups |-> <<>>]

\* the loop over the fetched charts
RECURSIVE ChartLoop(_, _)
ChartLoop(charts, acc) ==
    IF charts = <<>>
    THEN acc
    ELSE LET chart == Head(charts)
         IN  ChartLoop(Tail(charts),
                 [chart_names |-> Append(acc.chart_names, chart.displayName),
                  chart_descriptions |->
                      IF chart.description # None
                      THEN Append(acc.chart_descriptions, chart.description[1])
                      ELSE acc.chart_descriptions,
                  tags |->
                      IF Len(chart.tags) > 0
                      THEN acc.tags \cup {chart.tags[i].tagFQN : i \in 1..Len(chart.tags)}
                      ELSE acc.tags])

create_dashboard_es_doc(dashboard, fail) ==
    LET fqdn == dashboard.fullyQualifiedName
        suggest == <<[input |-> <<dashboard.displayName>>, weight |-> 10]>>
        service_key == LookupKey("DashboardService", dashboard.service.id)
        service_entity == get_by_id(fail, "DashboardService", dashboard.service.id)
    IN  IF service_entity = None
        THEN Raise("LookupError", <<service_key>>)
        ELSE IF dashboard.tags = None
        THEN Raise("TypeError", <<service_key>>)
        ELSE
        LET split == TierLoop(dashboard.tags[1], None, {})
            fetched == get_charts(dashboard.charts, fail)
        IN  IF ~fetched.ok
            THEN Raise("LookupError", <<service_key>> \o fetched.lookups)
            ELSE
            LET looped == ChartLoop(fetched.charts,
                              [chart_names |-> <<>>, chart_descriptions |-> <<>>,
                               tags |-> split.tags])
            IN  Return(
                    [dashboard_id |-> Str(dashboard.id),
                     service |-> service_entity[1].name,
                     service_type |-> service_entity[1].serviceType.name,
                     service_category |-> "dashboardService",
                     dashboard_name |-> dashboard.displayName,
                     chart_names |-> looped.chart_names,
                     chart_descriptions |-> looped.chart_descriptions,
                     suggest |-> suggest,
                     description |-> dashboard.description,
                     tier |-> split.tier,
                     tags |-> looped.tags,
                     fqdn |-> fqdn,
                     owner |-> OwnerOf(dashboard),
                     followers |-> FollowersOf(dashboard)],
                    <<service_key>> \o fetched.lookups)

----------------------------------------------------------------------------
(* ElasticsearchSink._create_pipeline_es_doc.                              *)

\* Python's == between a set and a tuple: never equal
SetEqualsTuple(s, t) == FALSE

\* `tags in task`: Task, a pydantic model, defines no __contains__, so Python
\* iterates the task, which yields its (field, value) tuples, and compares each
\* with the set `tags`
tags_in_task(tags, task) ==
    \E f \in DOMAIN task : SetEqualsTuple(tags, <<f, task[f]>>)

\* the loop over pipeline.tasks
RECURSIVE TaskLoop(_, _)
TaskLoop(tasks, acc) ==
    IF tasks = <<>>
    THEN acc
    ELSE LET task == Head(tasks)
         IN  TaskLoop(Tail(tasks),
                 [task_names |-> Append(acc.task_names, task.displayName),
                  task_descriptions |->
                      IF task.description # None
                      THEN Append(acc.task_descriptions, task.description[1])
                      ELSE acc.task_descriptions,
                  tags |->
                      IF tags_in_task(acc.tags, task) /\ Len(task.tags) > 0
                      THEN acc.tags \cup {task.tags[i].tagFQN : i \in 1..Len(task.tags)}
                      ELSE acc.tags])

create_pipeline_es_doc(pipeline, fail) ==
    LET fqdn == pipeline.fullyQualifiedName
        suggest == <<[input |-> <<pipeline.displayName>>, weight |-> 10]>>
        service_key == LookupKey("PipelineService", pipeline.service.id)
        service_entity == get_by_id(fail, "PipelineService", pipeline.service.id)
    IN  IF service_entity = None
        THEN Raise("LookupError", <<service_key>>)
        ELSE IF pipeline.tags = None
        THEN Raise("TypeError", <<service_key>>)
        ELSE
        LET split == TierLoop(pipeline.tags[1], None, {})
            looped == TaskLoop(pipeline.tasks,
                          [task_names |-> <<>>, task_descriptions |-> <<>>,
                           tags |-> split.tags])
        IN  Return(
                [pipeline_id |-> Str(pipeline.id),
                 service |-> service_entity[1].name,
                 service_type |-> service_entity[1].serviceType.name,
                 service_category |-> "pipelineService",
                 pipeline_name |-> pipeline.displayName,
                 task_names |-> looped.task_names,
                 task_descriptions |-> looped.task_descriptions,
                 suggest |-> suggest,
                 description |-> pipeline.description,
                 tier |-> split.tier,
                 tags |-> looped.tags,
                 fqdn |-> fqdn,
                 owner |-> OwnerOf(pipeline),
                 followers |-> FollowersOf(pipeline)],
                <<service_key>>)

----------------------------------------------------------------------------
(* ElasticsearchSink.write_record.                                         *)

\* the builder the isinstance chain picks: the entity kinds are disjoint
BuildDoc(rec, fail) ==
    CASE rec.kind = "Table" -> create_table_es_doc(rec, fail)
      [] rec.kind = "Topic" -> create_topic_es_doc(rec, fail)
      [] rec.kind = "Dashboard" -> create_dashboard_es_doc(rec, fail)
      [] rec.kind = "Pipeline" -> create_pipeline_es_doc(rec, fail)

\* the id keyword of the index call: str(x_doc.x_id)
DocId(kind, doc) ==
    CASE kind = "Table" -> doc.table_id
      [] kind = "Topic" -> doc.topic_id
      [] kind = "Dashboard" -> doc.dashboard_id
      [] kind = "Pipeline" -> doc.pipeline_id

\* record.name.__root__ if record.name has a __root__, else record.name
RecordName(rec) ==
    IF "root" \in DOMAIN rec.name THEN rec.name.root ELSE rec.name.str

\* SinkStatus.records_written(name)
records_written(records, name) == Append(records, name)

\* the index call of a branch of write_record, with the id left to Elasticsearch,
\* which then makes up a new one
index_doc_auto_id(w, cfg, rec, doc) ==
    EsIndex(w, IndexOf(cfg, rec.kind), Str(Len(w.calls)), JsonDumps(doc))

\* self.elasticsearch_client.index(index=..., id=str(x_doc.x_id), body=x_doc.json())
index_doc(w, cfg, rec, doc) ==
    EsIndex(w, IndexOf(cfg, rec.kind), DocId(rec.kind, doc), JsonDumps(doc))

\* write_record returning early for a record of no known kind
write_record_skip_unknown(w, cfg, st, rec, fail) ==
    IF rec.kind \in Kinds
    THEN LET built == BuildDoc(rec, fail)
         IN  IF ~built.ok
             THEN [w |-> w, status |-> st, result |-> built, trace |-> built.lookups]
             ELSE [w |-> index_doc(w, cfg, rec, built.doc[1]),
                   status |-> records_written(st, RecordName(rec)),
                   result |-> built,
                   trace |-> built.lookups
                             \o <<<<"index", IndexOf(cfg, rec.kind)>>,
                                  <<"records_written", RecordName(rec)>>>>]
    ELSE [w |-> w, status |-> st,
          result |-> [ok |-> TRUE, error |-> "", doc |-> None, lookups |-> <<>>],
          trace |-> <<>>]

\* the whole call on world w and status list st: the new world and status list,
\* how the call ended and what it did.  An exception raised by the builder
\* propagates: nothing after it runs.
write_record(w, cfg, st, rec, fail) ==
    IF rec.kind \in Kinds
    THEN LET built == BuildDoc(rec, fail)
         IN  IF ~built.ok
             THEN [w |-> w, status |-> st, result |-> built, trace |-> built.lookups]
             ELSE [w |-> index_doc(w, cfg, rec, built.doc[1]),
                   status |-> records_written(st, RecordName(rec)),
                   result |-> built,
                   trace |-> built.lookups
                             \o <<<<"index", IndexOf(cfg, rec.kind)>>,
                                  <<"records_written", RecordName(rec)>>>>]
    ELSE [w |-> w,
          status |-> records_written(st, RecordName(rec)),
          result |-> [ok |-> TRUE, error |-> "", doc |-> None, lookups |-> <<>>],
          trace |-> <<<<"records_written", RecordName(rec)>>>>]

----------------------------------------------------------------------------
(* The records the model feeds the sink.                                   *)

Owners == {None, Some([id |-> 7])}

Followers == {None, Some(<<[id |-> 8], [id |-> 9]>>)}

MkTable(id, description, tags, columns, owner, followers) ==
    [kind |-> "Table", id |-> id, name |-> [root |-> "orders"],
     fullyQualifiedName |-> "mysql.sales.orders", description |-> description,
     database |-> [id |-> "db1", name |-> "sales"],
     tags |-> tags, columns |-> columns, owner |-> owner, followers |-> followers]

MkTopic(id, description, tags, owner, followers) ==
    [kind |-> "Topic", id |-> id, name |-> [root |-> "clicks"],
     fullyQualifiedName |-> "kafka.clicks", description |-> description,
     service |-> [id |-> "kafka_svc"],
     tags |-> tags, owner |-> owner, followers |-> followers]

MkDashboard(id, description, tags, charts, owner, followers) ==
    [kind |-> "Dashboard", id |-> id, name |-> [str |-> "sales_board"],
     displayName |-> "Sales", fullyQualifiedName |-> "superset.sales_board",
     description |-> description, service |-> [id |-> "superset_svc"],
     tags |-> tags, charts |-> charts, owner |-> owner, followers |-> followers]

MkPipeline(id, description, tags, tasks, owner, followers) ==
    [kind |-> "Pipeline", id |-> id, name |-> [str |-> "nightly_etl"],
     displayName |-> "Nightly ETL", fullyQualifiedName |-> "airflow.nightly_etl",
     description |-> description, service |-> [id |-> "airflow_svc"],
     tags |-> tags, tasks |-> tasks, owner |-> owner, followers |-> followers]

\* a record that is none of the four kinds
MkOther(id) ==
    [kind |-> "Other", id |-> id, name |-> [str |-> "misc"], description |-> None]

Column(name, description, tags, children) ==
    [name |-> name, description |-> description, tags |-> tags, children |-> children]

ColNames == {<<"a">>, <<"b">>, <<"c">>}

DescOf(name) == IF name = <<"b">> THEN None ELSE Some("text")

\* the untagged column trees of depth <= d, and the lists of children of such
\* depth: none, one tree, or one tree followed by the leaf c
RECURSIVE Nodes(_)
ChildLists(d) ==
    IF d = 0
    THEN {None}
    ELSE {None}
         \cup {Some(<<t>>) : t \in Nodes(d)}
         \cup {Some(<<t, Column(<<"c">>, DescOf(<<"c">>), <<>>, None)>>) : t \in Nodes(d)}

Nodes(d) == {Column(n, DescOf(n), <<>>, ch) : n \in ColNames, ch \in ChildLists(d - 1)}

ColumnLists == {IF ch = None THEN <<>> ELSE ch[1] : ch \in ChildLists(MaxDepth)}

\* columns that carry tags, at the first and at the second level
TaggedColumnLists ==
    {<<>>}
    \cup {<<Column(<<"a">>, None, g, None)>> : g \in SeqsUpTo(TagLabels, 1)}
    \cup {<<Column(<<"a">>, None, <<>>, Some(<<Column(<<"b">>, None, g, None)>>))>> :
             g \in SeqsUpTo(TagLabels, 1) \ {<<>>}}

OptTagLists == {None} \cup {Some(l) : l \in SeqsUpTo(TagLabels, MaxTags)}

ChartRefs == {[id |-> "c1"], [id |-> "c2"], [id |-> "c3"]}

OptChartRefLists == {None} \cup {Some(l) : l \in SeqsUpTo(ChartRefs, MaxCharts)}

Tasks ==
    {[displayName |-> "extract", description |-> Some("text"), tags |-> <<[tagFQN |-> PII]>>],
     [displayName |-> "load", description |-> None, tags |-> <<[tagFQN |-> Tier1]>>],
     [displayName |-> "notify", description |-> None, tags |-> <<>>]}

\* the records of the builder specification: for each kind, every column
\* tree, every tag list with every nested element, every owner and followers
DocRecords ==
    {MkTable(1, None, Some(<<>>), c, None, None) : c \in ColumnLists}
    \cup {MkTable(1, None, g, c, None, None) : g \in OptTagLists, c \in TaggedColumnLists}
    \cup {MkTable(1, None, Some(<<>>), <<>>, o, f) : o \in Owners, f \in Followers}
    \cup {MkTopic(1, None, g, None, None) : g \in OptTagLists}
    \cup {MkTopic(1, None, Some(<<>>), o, f) : o \in Owners, f \in Followers}
    \cup {MkDashboard(1, None, g, c, None, None) :
             g \in OptTagLists, c \in OptChartRefLists}
    \cup {MkDashboard(1, None, Some(<<>>), None, o, f) : o \in Owners, f \in Followers}
    \cup {MkPipeline(1, None, g, t, None, None) :
             g \in OptTagLists, t \in SeqsUpTo(Tasks, MaxTasks)}
    \cup {MkPipeline(1, None, Some(<<>>), <<>>, o, f) : o \in Owners, f \in Followers}

\* the records of the sink specification: two entities of each kind, each
\* with and without a description, and a record of no known kind
Versions == {1, 2} \X {None, Some("text")}

SinkRecords ==
    {MkTable(v[1], v[2], Some(<<[tagFQN |-> Tier1]>>),
             <<Column(<<"a">>, None, <<>>, None)>>, None, None) : v \in Versions}
    \cup {MkTopic(v[1], v[2], Some(<<>>), None, None) : v \in Versions}
    \cup {MkDashboard(v[1], v[2], Some(<<>>), Some(<<[id |-> "c1"], [id |-> "c2"]>>),
                      None, None) : v \in Versions}
    \cup {MkPipeline(v[1], v[2], Some(<<>>), <<>>, None, None) : v \in Versions}
    \cup {MkOther(1)}

\* the lookups the builder of a kind makes for the records above
LookupsOf(kind) ==
    CASE kind = "Table" ->
            {LookupKey("Database", "db1"), LookupKey("DatabaseService", "mysql_svc")}
      [] kind = "Topic" -> {LookupKey("MessagingService", "kafka_svc")}
      [] kind = "Dashboard" ->
            {LookupKey("DashboardService", "superset_svc"),
             LookupKey("Chart", "c1"), LookupKey("Chart", "c2")}
      [] kind = "Pipeline" -> {LookupKey("PipelineService", "airflow_svc")}
      [] OTHER -> {}

\* a call of write_record: a record and the lookups that fail during the call:
\* none, or, for the first record of each kind, one of those its builder makes
Inputs ==
    {<<r, {}>> : r \in SinkRecords}
    \cup UNION {{<<r, {k}>> : k \in LookupsOf(r.kind)} :
                  r \in {x \in SinkRecords : x.id = 1 /\ x.description = None}}

----------------------------------------------------------------------------
(* The sink: construction, write_record, close.                            *)

FreshCluster == [i \in IndexNames |-> AbsentIndex]

Init ==
    /\ phase = "new"
    /\ config = None
    /\ es = FreshCluster
    /\ calls = <<>>
    /\ status = <<>>
    /\ record = None
    /\ failing = {}
    /\ result = None
    /\ trace = <<>>
    /\ nwrites = 0
    /\ nreturned = 0

\* ElasticsearchSink.create / __init__
Create(cfg) ==
    /\ phase = "new"
    /\ LET w == init_indices([es |-> es, calls |-> <<>>], cfg)
       IN  /\ es' = w.es
           /\ calls' = w.calls
    /\ phase' = "open"
    /\ config' = Some(cfg)
    /\ status' = <<>>
    /\ record' = None
    /\ failing' = {}
    /\ result' = None
    /\ trace' = <<>>
    /\ nwrites' = 0
    /\ nreturned' = 0

WriteRecord(rec, fail) ==
    /\ phase = "open"
    /\ nwrites < MaxWrites
    /\ \E out \in {write_record([es |-> es, calls |-> calls], config[1], status, rec, fail)} :
           /\ es' = out.w.es
           /\ calls' = out.w.calls
           /\ status' = out.status
           /\ result' = Some(out.result)
           /\ trace' = out.trace
           /\ nreturned' = IF out.result.ok THEN nreturned + 1 ELSE nreturned
    /\ record' = Some(rec)
    /\ failing' = fail
    /\ nwrites' = nwrites + 1
    /\ UNCHANGED <<phase, config>>

\* ElasticsearchSink.close
Close ==
    /\ phase = "open"
    /\ phase' = "closed"
    /\ calls' = Append(calls, Call("close", None, None, None))
    /\ UNCHANGED <<config, es, status, record, failing, result, trace, nwrites, nreturned>>

Next ==
    \/ \E cfg \in ElasticSearchConfigs : Create(cfg)
    \/ \E in \in Inputs : WriteRecord(in[1], in[2])
    \/ Close

Spec == Init /\ [][Next]_vars

----------------------------------------------------------------------------
(* The bootstrap against any cluster: each index absent, present without   *)
(* mappings, or present with mappings; a closed sink's workflow may run    *)
(* again later against the cluster it left.                                *)

Clusters ==
    {[i \in IndexNames |-> IF i \in absent THEN AbsentIndex
                           ELSE IF i \in empty THEN EmptyIndex
                           ELSE MappedIndex] :
        absent \in SUBSET IndexNames, empty \in SUBSET IndexNames}

InitBoot ==
    /\ phase = "new"
    /\ config = None
    /\ es \in Clusters
    /\ calls = <<>>
    /\ status = <<>>
    /\ record = None
    /\ failing = {}
    /\ result = None
    /\ trace = <<>>
    /\ nwrites = 0
    /\ nreturned = 0

\* the workflow is started again: a new sink will be constructed
Rerun ==
    /\ phase = "closed"
    /\ phase' = "new"
    /\ config' = None
    /\ calls' = <<>>
    /\ UNCHANGED <<es, status, record, failing, result, trace, nwrites, nreturned>>

NextBoot ==
    \/ \E cfg \in ElasticSearchConfigs : Create(cfg)
    \/ Close
    \/ Rerun

SpecBoot == InitBoot /\ [][NextBoot]_vars

----------------------------------------------------------------------------
(* The document builders on their own: a record is drawn, its builder runs *)
(* with every lookup succeeding.                                           *)

InitDoc ==
    /\ phase = "build"
    /\ config = None
    /\ es = FreshCluster
    /\ calls = <<>>
    /\ status = <<>>
    /\ record \in {Some(r) : r \in DocRecords}
    /\ failing = {}
    /\ result = None
    /\ trace = <<>>
    /\ nwrites = 0
    /\ nreturned = 0

Build(kind) ==
    /\ phase = "build"
    /\ result = None
    /\ record[1].kind = kind
    /\ LET built == BuildDoc(record[1], {})
       IN  /\ result' = Some(built)
           /\ trace' = built.lookups
    /\ UNCHANGED <<phase, config, es, calls, status, record, failing, nwrites, nreturned>>

NextDoc ==
    \/ Build("Table")
    \/ Build("Topic")
    \/ Build("Dashboard")
    \/ Build("Pipeline")

SpecDoc == InitDoc /\ [][NextDoc]_vars

----------------------------------------------------------------------------
(* Properties.                                                             *)

\* the last call and what it produced
Rec == record[1]
Finished == record # None /\ result # None
Built == Finished /\ result[1].ok /\ result[1].doc # None
Doc == result[1].doc[1]

\* the calls of a log made with operation op on an index
CallsIn(log, index, op) ==
    LET Test(c) == c.op = op /\ c.index = Some(index)
    IN  SelectSeq(log, Test)

\* the entity id a document of a kind carries
EntityId(kind, doc) ==
    CASE kind = "Table" -> doc.table_id
      [] kind = "Topic" -> doc.topic_id
      [] kind = "Dashboard" -> doc.dashboard_id
      [] kind = "Pipeline" -> doc.pipeline_id

\* the kind of a document, read off its service category
KindOfDoc(doc) ==
    CASE doc.service_category = "databaseService" -> "Table"
      [] doc.service_category = "messagingService" -> "Topic"
      [] doc.service_category = "dashboardService" -> "Dashboard"
      [] doc.service_category = "pipelineService" -> "Pipeline"

\* the positions of the tier tags in a tag list
TierPositions(tag_list) ==
    {i \in 1..Len(tag_list) : Contains(TIER, tag_list[i].tagFQN)}

FirstTierTag(tag_list) ==
    IF TierPositions(tag_list) = {}
    THEN None
    ELSE Some(tag_list[CHOOSE i \in TierPositions(tag_list) :
                           \A j \in TierPositions(tag_list) : i <= j].tagFQN)

LastTierTag(tag_list) ==
    IF TierPositions(tag_list) = {}
    THEN None
    ELSE Some(tag_list[CHOOSE i \in TierPositions(tag_list) :
                           \A j \in TierPositions(tag_list) : i >= j].tagFQN)

\* the dotted paths of a column forest, depth-first in pre-order
RECURSIVE DottedPaths(_, _)
DottedPaths(columns, prefix) ==
    IF columns = <<>>
    THEN <<>>
    ELSE LET column == Head(columns)
             path == IF prefix = <<>> THEN column.name ELSE prefix \o <<".">> \o column.name
         IN  <<path>>
             \o (IF column.children # None THEN DottedPaths(column.children[1], path) ELSE <<>>)
             \o DottedPaths(Tail(columns), prefix)

\* C1: on a sink whose configuration disables an entity kind, no call is ever
\* issued against that kind's index, neither by the constructor nor by
\* write_record.
C1_DisabledKindNeverTouched ==
    config # None =>
        \A kind \in Kinds :
            ~KindEnabled(config[1], kind) =>
                \A n \in 1..Len(calls) : calls[n].index # Some(IndexOf(config[1], kind))

C3_TagsExcludeTier ==
    Built => (Doc.tier # None => Doc.tier[1] \notin Doc.tags)

\* C4: column_names holds, depth-first in pre-order, the dotted path of every
\* column from its root down to the column.
C4_ColumnNamesAreDottedPaths ==
    (Built /\ Rec.kind = "Table") => Doc.column_names = DottedPaths(Rec.columns, <<>>)

\* C5: one bootstrap of an enabled kind's index issues one create-index call
\* with the whole template when the index is absent, one put-mapping call with
\* the template's properties alone when it exists without mappings, and
\* neither when it exists with mappings; afterwards the index exists with
\* mappings, so that a second bootstrap changes nothing.
C5_Bootstrap(kind) ==
    LET cfg == config'[1]
        i == IndexOf(cfg, kind)
        creates == CallsIn(calls', i, "indices.create")
        puts == CallsIn(calls', i, "indices.put_mapping")
        template == MappingOf(kind)
        properties == [properties |-> JsonLoads(template).mappings.properties]
    IN  KindEnabled(cfg, kind) =>
            /\ ~es[i].exists =>
                   /\ creates = <<Call("indices.create", Some(i), None, Some(template))>>
                   /\ puts = <<>>
            /\ (es[i].exists /\ es[i].mappings = {}) =>
                   /\ puts = <<Call("indices.put_mapping", Some(i), None,
                                    Some(JsonDumps(properties)))>>
                   /\ creates = <<>>
            /\ (es[i].exists /\ es[i].mappings # {}) =>
                   /\ creates = <<>>
                   /\ puts = <<>>
                   /\ es'[i] = es[i]
            /\ es'[i].exists
            /\ es'[i].mappings # {}

C5_OneAdminWritePerIndexState ==
    [][(phase = "new" /\ phase' = "open") => \A kind \in Kinds : C5_Bootstrap(kind)]_vars

\* a bootstrap that met the three index states: it created the table index,
\* patched the topic index and left the dashboard index alone
C5_ThreeIndexStates ==
    /\ phase = "open"
    /\ Len(CallsIn(calls, "table_search_index", "indices.create")) = 1
    /\ Len(CallsIn(calls, "topic_search_index", "indices.put_mapping")) = 1
    /\ Len(CallsIn(calls, "dashboard_search_index", "indices.exists")) = 1
    /\ Len(CallsIn(calls, "dashboard_search_index", "indices.create")) = 0
    /\ Len(CallsIn(calls, "dashboard_search_index", "indices.put_mapping")) = 0

\* C6: every document write uses the entity's id as document id, in the index
\* of the record's kind; each index holds at most one document per entity id,
\* and after a write the stored document of that id is the one just written.
C6_OneDocumentPerEntity ==
    config # None =>
        /\ \A n \in 1..Len(calls) :
               calls[n].op = "index" =>
                   LET doc == JsonLoads(calls[n].body[1])
                   IN  /\ calls[n].index = Some(IndexOf(config[1], KindOfDoc(doc)))
                       /\ calls[n].id = Some(EntityId(KindOfDoc(doc), doc))
        /\ \A kind \in Kinds :
               LET docs == es[IndexOf(config[1], kind)].docs
               IN  /\ \A d \in docs : d.id = EntityId(kind, JsonLoads(d.body))
                   /\ \A d1, d2 \in docs :
                          EntityId(kind, JsonLoads(d1.body)) = EntityId(kind, JsonLoads(d2.body))
                              => d1 = d2
        /\ Built =>
               /\ EntityId(Rec.kind, Doc) = Str(Rec.id)
               /\ [id |-> Str(Rec.id), body |-> JsonDumps(Doc)]
                      \in es[IndexOf(config[1], Rec.kind)].docs

\* the same table written twice with different content: one document is stored
C6_SameEntityWrittenTwice ==
    /\ nwrites = 2
    /\ Built
    /\ Rec.kind = "Table"
    /\ LET writes == CallsIn(calls, "table_search_index", "index")
       IN  /\ Len(writes) = 2
           /\ writes[1].id = writes[2].id
           /\ writes[1].body # writes[2].body
           /\ es["table_search_index"].docs = {[id |-> writes[2].id[1], body |-> writes[2].body[1]]}

\* C7: every call of write_record that returns normally adds one entry to the
\* status list, the record's name, after the index write; so does a call for a
\* record of no known kind, which issues no index write.  The entries are as
\* many as the calls that returned normally.
C7_OneEntryPerReturn ==
    config # None =>
        /\ Len(status) = nreturned
        /\ (Finished /\ result[1].ok) =>
               /\ status # <<>>
               /\ status[Len(status)] = RecordName(Rec)
               /\ trace # <<>>
               /\ trace[Len(trace)] = <<"records_written", RecordName(Rec)>>
               /\ \A n \in 1..(Len(trace) - 1) : trace[n][1] # "records_written"
               /\ Rec.kind \in Kinds =>
                      /\ Len(trace) >= 2
                      /\ trace[Len(trace) - 1] = <<"index", IndexOf(config[1], Rec.kind)>>
               /\ Rec.kind \notin Kinds =>
                      \A n \in 1..Len(trace) : trace[n][1] # "index"
        /\ (Finished /\ ~result[1].ok) =>
               \A n \in 1..Len(trace) : trace[n][1] # "records_written"

\* a record of no known kind tracked as the second entry
C7_UnknownKindTracked ==
    /\ Finished
    /\ Rec.kind = "Other"
    /\ result[1].ok
    /\ nreturned = 2
    /\ status[2] = "misc"

\* C8: when a lookup made for a record fails, write_record ends with the error,
\* the failed lookup is the last thing it did and no lookup was made twice, no
\* index call is issued and the status list gains no entry.
C8_FailedLookupStep ==
    (nwrites' = nwrites + 1 /\ \E n \in 1..Len(trace') : trace'[n] \in failing') =>
        /\ ~result'[1].ok
        /\ result'[1].error = "LookupError"
        /\ result'[1].doc = None
        /\ trace'[Len(trace')] \in failing'
        /\ \A m, n \in 1..Len(trace') : trace'[m] = trace'[n] => m = n
        /\ es' = es
        /\ calls' = calls
        /\ status' = status
        /\ nreturned' = nreturned

C8_FailedLookupPropagates == [][C8_FailedLookupStep]_vars

\* a dashboard whose second chart could not be fetched, on a sink that had
\* already written a record
C8_SecondChartFails ==
    /\ Finished
    /\ Rec.kind = "Dashboard"
    /\ ~result[1].ok
    /\ Len(trace) = 3
    /\ trace[3] \in failing
    /\ status # <<>>

\* C9: absent optional fields give defaults instead of a failure: no owner
\* gives owner "", no followers gives no followers, an unset tag list gives an
\* unset tier and no tags.
C9_AbsentOptionalsDefaulted ==
    Finished =>
        /\ Rec.owner = None => (result[1].ok /\ Doc.owner = <<>>)
        /\ Rec.followers = None => (result[1].ok /\ Doc.followers = <<>>)
        /\ Rec.tags = None => (result[1].ok /\ Doc.tier = None /\ Doc.tags = {})

\* C10: the tags of a pipeline's document hold every tag of every task of the
\* pipeline.
C10_TaskTagsMerged ==
    (Built /\ Rec.kind = "Pipeline") =>
        \A n \in 1..Len(Rec.tasks) :
            \A m \in 1..Len(Rec.tasks[n].tags) : Rec.tasks[n].tags[m].tagFQN \in Doc.tags

====
